---- MODULE Spec2Model ----
(***************************************************************************)
(* State-machine model of the wholesale inventory/order backend            *)
(* (src/app.py): the four tables Product, Retailer, Order, OrderItem and   *)
(* the request handlers that change them.  Under Spec and SpecOrders every *)
(* handler is one atomic action (requests handled one after the other);    *)
(* under SpecConc a handler reads in one step and commits in another, and  *)
(* the steps of two requests interleave.                                   *)
(*                                                                         *)
(* Rows are kept in sequences; a row's primary key is its index (the       *)
(* tables are autoincremented and rows are never physically deleted).      *)
(* Prices are floats in the source; the model draws integer-valued prices, *)
(* on which float arithmetic is exact.                                     *)
(***************************************************************************)
EXTENDS Integers, Sequences, FiniteSets, TLC

VARIABLES
    products,     \* Product table: <<[name, cp, sp, mrp, stock]>>
    retailers,    \* Retailer table: <<[shop_name]>>
    orders,       \* Order table: <<[retailer_id, grand_total, total_items, status]>>
    order_items,  \* OrderItem table: <<[order_id, product_id, product_name, cp, sp, mrp, qty, item_total]>>
    received,     \* per product: stock given at add-product plus positive restock additions
    last,         \* the last request handled: [op, code, pos, arg, data, before]
    inflight      \* per request slot: what a request that has read and not yet
                  \* committed holds in its session (used by SpecConc only)

vars == <<products, retailers, orders, order_items, received, last, inflight>>

(***************************************************************************)
(* Bounds of the model.                                                    *)
(***************************************************************************)
MaxProducts == 2    \* rows of the Product table
MaxRetailers == 1   \* rows of the Retailer table
MaxOrders == 1      \* rows of the Order table
MaxStock == 2       \* restock is explored while the stock stays within this
MaxItems == 2       \* length of a place-order request's items list
MaxInFlight == 2    \* requests handled at the same time (SpecConc)

(***************************************************************************)
(* JSON values of a request body, by kind.                                 *)
(*   int     a JSON number v                                               *)
(*   numstr  the decimal string of v, e.g. "2"                             *)
(*   str     a non-numeric string, e.g. "abc"                              *)
(*   empty   the empty string                                              *)
(*   null    JSON null                                                     *)
(*   list    a non-empty JSON list                                         *)
(*   missing the key is absent from the object                             *)
(***************************************************************************)
JInt(n) == [t |-> "int", v |-> n]
JNumStr(n) == [t |-> "numstr", v |-> n]
JStr == [t |-> "str", v |-> 0]
JEmpty == [t |-> "empty", v |-> 0]
JNull == [t |-> "null", v |-> 0]
JList == [t |-> "list", v |-> 0]
JMissing == [t |-> "missing", v |-> 0]

\* dict.get(key, default): the default stands in for an absent key only.
get(x, default) == IF x.t = "missing" THEN default ELSE x

\* int(x): a number or a numeric string converts, any other string raises
\* ValueError, None and lists raise TypeError.
py_int(x) ==
    CASE x.t \in {"int", "numstr"} -> [ok |-> TRUE, v |-> x.v, err |-> "none"]
      [] x.t \in {"str", "empty"} -> [ok |-> FALSE, v |-> 0, err |-> "ValueError"]
      [] OTHER -> [ok |-> FALSE, v |-> 0, err |-> "TypeError"]

\* float(x) on the integer-valued inputs of the model: as int(x).
py_float(x) == py_int(x)

\* Python truthiness: `not x`.
falsy(x) ==
    \/ x.t \in {"null", "empty", "missing"}
    \/ x.t = "int" /\ x.v = 0

\* str(x).strip() == ""
blank(x) == x.t = "empty"

(***************************************************************************)
(* Request inputs.                                                         *)
(***************************************************************************)
PriceInputs ==
    { [cp |-> JInt(1), sp |-> JInt(2), mrp |-> JInt(3)],
      [cp |-> JMissing, sp |-> JInt(-1), mrp |-> JMissing] }

NoData == [retailer_id |-> JMissing, items_is_list |-> FALSE, items |-> <<>>]

\* The stock column of the Product table.
stocks == [pid \in DOMAIN products |-> products[pid].stock]

\* What is recorded of a handled request: the handler, its HTTP status code, how
\* far the item loop got, the row it was about, the request body (of place-order,
\* restock and add-product) and the stock column as it was when the request
\* arrived.
handled(op, code, pos, arg, data) ==
    [op |-> op, code |-> code, pos |-> pos, arg |-> arg, data |-> data, before |-> stocks]

\* A request slot that holds no request.
Idle == [op |-> "idle"]

Init ==
    /\ inflight = [t \in 1..MaxInFlight |-> Idle]
    /\ products = <<>>
    /\ retailers = <<>>
    /\ orders = <<>>
    /\ order_items = <<>>
    /\ received = <<>>
    /\ last = handled("init", 0, 0, 0, NoData)

(***************************************************************************)
(* api_add_retailer                                                        *)
(***************************************************************************)
api_add_retailer(shop_name) ==
    /\ Len(retailers) < MaxRetailers
    /\ IF shop_name = ""
       THEN /\ last' = handled("add_retailer", 400, 0, 0, NoData)
            /\ UNCHANGED retailers
       ELSE /\ retailers' = Append(retailers, [shop_name |-> shop_name])
            /\ last' = handled("add_retailer", 200, 0, Len(retailers) + 1, NoData)
    /\ UNCHANGED <<products, orders, order_items, received, inflight>>

(***************************************************************************)
(* api_add_product                                                         *)
(***************************************************************************)
AddProductInputs ==
    { [name |-> "Soap", cp |-> pr.cp, sp |-> pr.sp, mrp |-> pr.mrp, stock |-> st] :
        pr \in PriceInputs, st \in {JInt(-1), JInt(0), JInt(MaxStock), JMissing} }
    \cup { [name |-> "Soap", cp |-> JInt(1), sp |-> JInt(2), mrp |-> JInt(3), stock |-> JStr],
           [name |-> "Soap", cp |-> JStr, sp |-> JInt(2), mrp |-> JInt(3), stock |-> JInt(1)],
           [name |-> "Soap", cp |-> JInt(1), sp |-> JNull, mrp |-> JInt(3), stock |-> JInt(1)],
           [name |-> "Soap", cp |-> JInt(1), sp |-> JInt(2), mrp |-> JInt(3), stock |-> JList],
           [name |-> "", cp |-> JInt(1), sp |-> JInt(2), mrp |-> JInt(3), stock |-> JInt(1)] }

\* The Product row built from the parsed fields.
Product(name, cp, sp, mrp, stock) ==
    [name |-> name, cp |-> cp, sp |-> sp, mrp |-> mrp, stock |-> stock]

api_add_product(data) ==
    LET cp == py_float(get(data.cp, JInt(0)))
        sp == py_float(get(data.sp, JInt(0)))
        mrp == py_float(get(data.mrp, JInt(0)))
        stock == py_int(get(data.stock, JInt(0)))
        fail(code) == /\ last' = handled("add_product", code, 0, 0, data)
                      /\ UNCHANGED <<products, received>>
    IN
    /\ Len(products) < MaxProducts
    /\ IF ~(cp.ok /\ sp.ok /\ mrp.ok /\ stock.ok) THEN fail(400)
       ELSE IF data.name = "" THEN fail(400)
       ELSE /\ products' = Append(products, Product(data.name, cp.v, sp.v, mrp.v, stock.v))
            /\ received' = Append(received, stock.v)
            /\ last' = handled("add_product", 200, 0, Len(products) + 1, data)
    /\ UNCHANGED <<retailers, orders, order_items, inflight>>

(***************************************************************************)
(* api_update_product_stock (restock)                                      *)
(***************************************************************************)
RestockInputs ==
    { [id |-> JInt(p), stock_to_add |-> JInt(a), cp |-> pr.cp, sp |-> pr.sp, mrp |-> pr.mrp] :
        p \in 1..MaxProducts, a \in {-1, 0, 1}, pr \in PriceInputs }
    \cup { [id |-> JStr, stock_to_add |-> JInt(1), cp |-> JInt(1), sp |-> JInt(2), mrp |-> JInt(3)],
           [id |-> JInt(1), stock_to_add |-> JNull, cp |-> JInt(1), sp |-> JInt(2), mrp |-> JInt(3)],
           [id |-> JInt(1), stock_to_add |-> JInt(1), cp |-> JList, sp |-> JInt(2), mrp |-> JInt(3)] }

\* A restock that adds whatever quantity it is given.
restocked_any(stock, stock_to_add) ==
    IF stock_to_add # 0 THEN stock + stock_to_add ELSE stock

\* Lines 146-148: the stock after a restock of stock_to_add.
restocked(stock, stock_to_add) ==
    IF stock_to_add > 0 THEN stock + stock_to_add ELSE stock

\* A price update that writes the selling price and the MRP the wrong way round.
repriced_swapped(product, new_cp, new_sp, new_mrp) ==
    [product EXCEPT !.cp = new_cp, !.sp = new_mrp, !.mrp = new_sp]

\* Lines 142-144: the product with its three prices replaced.
repriced(product, new_cp, new_sp, new_mrp) ==
    [product EXCEPT !.cp = new_cp, !.sp = new_sp, !.mrp = new_mrp]

api_update_product_stock(data) ==
    LET product_id == py_int(data.id)
        stock_to_add == py_int(get(data.stock_to_add, JInt(0)))
        new_cp == py_float(get(data.cp, JInt(0)))
        new_sp == py_float(get(data.sp, JInt(0)))
        new_mrp == py_float(get(data.mrp, JInt(0)))
        fail(code) == /\ last' = handled("restock", code, 0, product_id.v, data)
                      /\ UNCHANGED <<products, received>>
    IN
    /\ IF ~(product_id.ok /\ stock_to_add.ok /\ new_cp.ok /\ new_sp.ok /\ new_mrp.ok)
       THEN fail(400)
       ELSE IF product_id.v \notin DOMAIN products THEN fail(404)
       ELSE LET product == products[product_id.v] IN
            /\ stock_to_add.v > 0 => restocked(product.stock, stock_to_add.v) <= MaxStock
            /\ products' = [products EXCEPT ![product_id.v] =
                   [repriced(product, new_cp.v, new_sp.v, new_mrp.v) EXCEPT
                       !.stock = restocked(product.stock, stock_to_add.v)]]
            /\ received' = [received EXCEPT ![product_id.v] =
                   IF stock_to_add.v > 0 THEN @ + stock_to_add.v ELSE @]
            /\ last' = handled("restock", 200, 0, product_id.v, data)
    /\ UNCHANGED <<retailers, orders, order_items, inflight>>

(***************************************************************************)
(* api_place_order                                                         *)
(***************************************************************************)
\* Items the validation loop accepts when the product exists and has the stock.
GoodItems ==
    { [product_id |-> JInt(p), qty |-> JInt(q)] : p \in 1..MaxProducts, q \in 1..MaxStock }

\* Items the validation loop rejects whatever the store holds.
BadItems ==
    { [product_id |-> JInt(1), qty |-> JInt(0)],
      [product_id |-> JInt(1), qty |-> JInt(-1)],
      [product_id |-> JInt(1), qty |-> JMissing],
      [product_id |-> JInt(1), qty |-> JStr],
      [product_id |-> JInt(1), qty |-> JList],
      [product_id |-> JNull, qty |-> JInt(1)],
      [product_id |-> JInt(MaxProducts + 1), qty |-> JInt(1)] }

\* The loop returns at the first item it rejects, so a rejected item is the
\* last one of a list.
ItemLists ==
    UNION { { l \in [1..n -> GoodItems \cup BadItems] :
                \A i \in 1..(n - 1) : l[i] \in GoodItems } : n \in 0..MaxItems }

RetailerIdInputs ==
    { JMissing, JNull, JEmpty, JStr, JInt(0), JList, JNumStr(1) }

PlaceOrderInputs ==
    { [retailer_id |-> JInt(1), items_is_list |-> TRUE, items |-> l] : l \in ItemLists }
    \cup { [retailer_id |-> r, items_is_list |-> TRUE,
            items |-> << [product_id |-> JInt(1), qty |-> JInt(1)] >>] : r \in RetailerIdInputs }
    \cup { [retailer_id |-> JList, items_is_list |-> TRUE,
            items |-> << [product_id |-> JInt(1), qty |-> JInt(0)] >>],
           [retailer_id |-> JInt(1), items_is_list |-> FALSE, items |-> <<>>] }

\* A hold-map that adds up the quantities listed for a product.
hold_sum(prods, pid, qty) ==
    IF \E k \in DOMAIN prods : prods[k].pid = pid
    THEN [k \in DOMAIN prods |->
            IF prods[k].pid = pid THEN [pid |-> pid, qty |-> prods[k].qty + qty]
            ELSE prods[k]]
    ELSE Append(prods, [pid |-> pid, qty |-> qty])

\* A hold-list that takes an entry for every listed item.
hold_append(prods, pid, qty) == Append(prods, [pid |-> pid, qty |-> qty])

\* A hold-map that keeps the first quantity seen for a product.
hold_first(prods, pid, qty) ==
    IF \E k \in DOMAIN prods : prods[k].pid = pid
    THEN prods
    ELSE Append(prods, [pid |-> pid, qty |-> qty])

\* Line 203, prods[pid] = (p, qty): the hold-map as the sequence of its entries
\* in insertion order; assigning an existing key replaces its value in place.
hold(prods, pid, qty) ==
    IF \E k \in DOMAIN prods : prods[k].pid = pid
    THEN [k \in DOMAIN prods |->
            IF prods[k].pid = pid THEN [pid |-> pid, qty |-> qty] ELSE prods[k]]
    ELSE Append(prods, [pid |-> pid, qty |-> qty])

\* A quantity check that lets a quantity of zero through.
bad_qty_negative(qty) == qty < 0

\* Line 196: the quantities the loop turns down.
bad_qty(qty) == qty <= 0

\* Lines 204-205: the totals after one more accepted item.
totals(acc, sp, qty) ==
    [acc EXCEPT !.grand_total = @ + sp * qty, !.total_items = @ + qty]

\* Lines 190-205: the validation loop from item i on; acc is the loop's state
\* [code, pos, prods, grand_total, total_items], code 0 while no item is rejected.
RECURSIVE validate(_, _, _)
validate(items, i, acc) ==
    IF i > Len(items) THEN acc
    ELSE LET it == items[i]
             pid == py_int(it.product_id)
             qty == py_int(get(it.qty, JInt(0)))
             reject(code) == [acc EXCEPT !.code = code, !.pos = i]
         IN IF ~(pid.ok /\ qty.ok) THEN reject(400)
            ELSE IF bad_qty(qty.v) THEN reject(400)
            ELSE IF pid.v \notin DOMAIN products THEN reject(404)
            ELSE IF products[pid.v].stock < qty.v THEN reject(409)
            ELSE validate(items, i + 1,
                          totals([acc EXCEPT !.prods = hold(@, pid.v, qty.v)],
                                 products[pid.v].sp, qty.v))

\* Lines 30-37, 207: the Order row; status takes the column default.
Order(retailer_id, grand_total, total_items) ==
    [retailer_id |-> retailer_id, grand_total |-> grand_total,
     total_items |-> total_items, status |-> "pending"]

\* Lines 212-213: the OrderItem row of hold-map entry e, a snapshot of the
\* Product object p the session holds, rows[e.pid].
OrderItemFrom(order_id, e, rows) ==
    LET p == rows[e.pid] IN
    [order_id |-> order_id, product_id |-> e.pid, product_name |-> p.name,
     cp |-> p.cp, sp |-> p.sp, mrp |-> p.mrp, qty |-> e.qty, item_total |-> p.sp * e.qty]

\* One request at a time: the session holds the table's rows.
OrderItem(order_id, e) == OrderItemFrom(order_id, e, products)

\* Line 211, p.stock -= qty for every entry of the hold-map.
decremented(prods) ==
    [pid \in DOMAIN products |->
        IF \E k \in DOMAIN prods : prods[k].pid = pid
        THEN LET k == CHOOSE k \in DOMAIN prods : prods[k].pid = pid
             IN [products[pid] EXCEPT !.stock = @ - prods[k].qty]
        ELSE products[pid]]

\* Lines 172-183: the checks before the loop; 0 when they pass.
precheck(data) ==
    IF ~data.items_is_list THEN 400
    ELSE IF falsy(data.retailer_id) \/ blank(data.retailer_id) THEN 400
    ELSE IF py_int(data.retailer_id).err = "ValueError" THEN 400
    ELSE IF py_int(data.retailer_id).err = "TypeError" THEN 500
    ELSE 0

\* A handler that takes the stock of each item as the loop accepts it and
\* keeps what it took when a later item is turned down.
place_order_eager(data) ==
    LET pre == precheck(data)
        res == validate(data.items, 1,
                        [code |-> 0, pos |-> 0, prods |-> <<>>,
                         grand_total |-> 0, total_items |-> 0])
        oid == Len(orders) + 1
    IN IF pre # 0
       THEN [code |-> pre, pos |-> 0, products |-> products,
             orders |-> orders, order_items |-> order_items]
       ELSE IF res.code # 0
       THEN [code |-> res.code, pos |-> res.pos, products |-> decremented(res.prods),
             orders |-> orders, order_items |-> order_items]
       ELSE [code |-> 200, pos |-> Len(data.items) + 1,
             products |-> decremented(res.prods),
             orders |-> Append(orders, Order(py_int(data.retailer_id).v,
                                             res.grand_total, res.total_items)),
             order_items |-> order_items \o
                 [k \in DOMAIN res.prods |-> OrderItem(oid, res.prods[k])]]

\* Lines 170-216: what the handler answers and leaves in the tables.  Nothing is
\* written before the loop has accepted every item; a request that is turned
\* down returns with the tables as they were.
place_order(data) ==
    LET pre == precheck(data)
        res == validate(data.items, 1,
                        [code |-> 0, pos |-> 0, prods |-> <<>>,
                         grand_total |-> 0, total_items |-> 0])
        refused(code, pos) ==
            [code |-> code, pos |-> pos, products |-> products,
             orders |-> orders, order_items |-> order_items]
        oid == Len(orders) + 1
    IN IF pre # 0 THEN refused(pre, 0)
       ELSE IF res.code # 0 THEN refused(res.code, res.pos)
       ELSE [code |-> 200, pos |-> Len(data.items) + 1,
             products |-> decremented(res.prods),
             orders |-> Append(orders, Order(py_int(data.retailer_id).v,
                                             res.grand_total, res.total_items)),
             order_items |-> order_items \o
                 [k \in DOMAIN res.prods |-> OrderItem(oid, res.prods[k])]]

\* Requests are explored while the Order table holds fewer than cap rows.
api_place_order_upto(data, cap) ==
    LET r == place_order(data) IN
    /\ Len(orders) < cap
    /\ products' = r.products
    /\ orders' = r.orders
    /\ order_items' = r.order_items
    /\ last' = handled("place_order", r.code, r.pos,
                       IF r.code = 200 THEN Len(orders) + 1 ELSE 0, data)
    /\ UNCHANGED <<retailers, received, inflight>>

api_place_order(data) == api_place_order_upto(data, MaxOrders)

(***************************************************************************)
(* delete_order, deliver_order                                             *)
(***************************************************************************)
\* Line 255: OrderItem.query.filter_by(order_id=oid).all()
items_of(oid) == SelectSeq(order_items, LAMBDA it : it.order_id = oid)

\* A restore that gives back one unit per item, whatever its qty.
RECURSIVE restored_one(_, _, _)
restored_one(ps, items, i) ==
    IF i > Len(items) THEN ps
    ELSE LET it == items[i]
         IN restored_one(IF it.product_id \in DOMAIN ps
                         THEN [ps EXCEPT ![it.product_id].stock = @ + 1]
                         ELSE ps,
                         items, i + 1)

\* Lines 256-259: the products after p.stock += it.qty for items[i..]; an item
\* whose product is missing is skipped.
RECURSIVE restored(_, _, _)
restored(ps, items, i) ==
    IF i > Len(items) THEN ps
    ELSE LET it == items[i]
         IN restored(IF it.product_id \in DOMAIN ps
                     THEN [ps EXCEPT ![it.product_id].stock = @ + it.qty]
                     ELSE ps,
                     items, i + 1)

\* A guard that lets an order already deleted through.
delete_conflict_never(order) == FALSE

\* Line 252: delete_order turns down an order that is already deleted.
delete_conflict(order) == order.status = "deleted"

\* A guard that lets a deleted order through.
deliver_conflict_never(order) == FALSE

\* A guard that turns down the orders already delivered, not the deleted ones.
deliver_conflict_delivered(order) == order.status = "delivered"

\* Line 270: deliver_order turns down an order that is deleted.
deliver_conflict(order) == order.status = "deleted"

\* A delete that removes the order's OrderItem rows.
items_after_delete_purged(oid) == SelectSeq(order_items, LAMBDA it : it.order_id # oid)

\* Lines 255-261: delete_order reads the order's OrderItem rows and writes none;
\* the OrderItem table after it.
items_after_delete(oid) == order_items

delete_order(oid) ==
    LET fail(code) == /\ last' = handled("delete_order", code, 0, oid, NoData)
                      /\ UNCHANGED <<products, orders, order_items>>
    IN
    /\ IF oid \notin DOMAIN orders THEN fail(404)
       ELSE IF delete_conflict(orders[oid]) THEN fail(400)
       ELSE /\ products' = restored(products, items_of(oid), 1)
            /\ orders' = [orders EXCEPT ![oid].status = "deleted"]
            /\ order_items' = items_after_delete(oid)
            /\ last' = handled("delete_order", 200, 0, oid, NoData)
    /\ UNCHANGED <<retailers, received, inflight>>

deliver_order(oid) ==
    LET fail(code) == /\ last' = handled("deliver_order", code, 0, oid, NoData)
                      /\ UNCHANGED orders
    IN
    /\ IF oid \notin DOMAIN orders THEN fail(404)
       ELSE IF deliver_conflict(orders[oid]) THEN fail(400)
       ELSE /\ orders' = [orders EXCEPT ![oid].status = "delivered"]
            /\ last' = handled("deliver_order", 200, 0, oid, NoData)
    /\ UNCHANGED <<products, retailers, order_items, received, inflight>>

(***************************************************************************)
(* The listings: api_orders, api_retailer_orders, export_csv.  They read   *)
(* the tables and change nothing.                                          *)
(***************************************************************************)
\* Line 83: the ids of the orders the active listing returns.
api_orders == { oid \in DOMAIN orders : orders[oid].status # "deleted" }

\* Line 231: the ids of the orders the listing of retailer rid returns.
api_retailer_orders(rid) ==
    { oid \in DOMAIN orders :
        orders[oid].retailer_id = rid /\ orders[oid].status # "deleted" }

\* Lines 282-287: the rows of the export, one per OrderItem of every Order.
export_csv ==
    { [order_id |-> oid, product |-> order_items[k].product_name,
       qty |-> order_items[k].qty, sp |-> order_items[k].sp, cp |-> order_items[k].cp,
       item_total |-> order_items[k].item_total,
       grand_total |-> orders[oid].grand_total, status |-> orders[oid].status] :
        <<oid, k>> \in { x \in (DOMAIN orders) \X (DOMAIN order_items) :
                            order_items[x[2]].order_id = x[1] } }

Next ==
    \/ \E shop_name \in {"ABC Store", ""} : api_add_retailer(shop_name)
    \/ \E data \in AddProductInputs : api_add_product(data)
    \/ \E data \in RestockInputs : api_update_product_stock(data)
    \/ \E data \in PlaceOrderInputs : api_place_order(data)
    \/ \E oid \in 1..MaxOrders : delete_order(oid)
    \/ \E oid \in 1..MaxOrders : deliver_order(oid)

Spec == Init /\ [][Next]_vars

(***************************************************************************)
(* A second specification, for what happens to an Order after it is        *)
(* created: one more Order than under Spec, so that an order sees a        *)
(* further place-order, and a narrower choice of request bodies.           *)
(***************************************************************************)
LaterAddProductInputs ==
    { [name |-> "Soap", cp |-> JInt(1), sp |-> JInt(2), mrp |-> JInt(3),
       stock |-> JInt(MaxStock)] }

LaterRestockInputs ==
    { [id |-> JInt(p), stock_to_add |-> JInt(a), cp |-> JInt(2), sp |-> JInt(3), mrp |-> JInt(4)] :
        p \in 1..MaxProducts, a \in {0, 1} }

LaterPlaceOrderInputs ==
    { [retailer_id |-> JInt(1), items_is_list |-> TRUE, items |-> l] :
        l \in UNION { [1..n -> { it \in GoodItems : it.qty.v = 1 }] : n \in 1..MaxItems } }

NextOrders ==
    \/ api_add_retailer("ABC Store")
    \/ \E data \in LaterAddProductInputs : api_add_product(data)
    \/ \E data \in LaterRestockInputs : api_update_product_stock(data)
    \/ \E data \in LaterPlaceOrderInputs : api_place_order_upto(data, MaxOrders + 1)
    \/ \E oid \in 1..(MaxOrders + 1) : delete_order(oid)
    \/ \E oid \in 1..(MaxOrders + 1) : deliver_order(oid)

SpecOrders == Init /\ [][NextOrders]_vars

(***************************************************************************)
(* A third specification, for requests handled at the same time (the       *)
(* server runs one thread per request, each with a session of its own).    *)
(* A handler reads its rows (Product.query.get, lines 137, 198, 257), works *)
(* on the objects its session holds, and writes at db.session.commit()     *)
(* (lines 150, 215, 261); nothing in the handlers locks the rows in        *)
(* between.  A request is two steps: begin, in which it reads and          *)
(* validates, and commit, in which the storage engine applies its writes   *)
(* in one transaction.  The UPDATE of a stock writes the value the session *)
(* computed from the value it read.  A request that is turned down answers *)
(* in its begin step and writes nothing.                                   *)
(***************************************************************************)
ConcRestockInputs ==
    { [id |-> JInt(p), stock_to_add |-> JInt(1), cp |-> JInt(1), sp |-> JInt(2), mrp |-> JInt(3)] :
        p \in 1..MaxProducts }

ConcPlaceOrderInputs ==
    { [retailer_id |-> JInt(1), items_is_list |-> TRUE,
       items |-> << [product_id |-> JInt(p), qty |-> JInt(1)] >>] : p \in 1..MaxProducts }
    \cup { [retailer_id |-> JInt(1), items_is_list |-> TRUE,
            items |-> [p \in 1..MaxProducts |-> [product_id |-> JInt(p), qty |-> JInt(1)]]] }

\* The place-order requests in flight.
placing == { t \in DOMAIN inflight : inflight[t].op = "place_order" }

begin_place_order(t, data) ==
    LET pre == precheck(data)
        res == validate(data.items, 1,
                        [code |-> 0, pos |-> 0, prods |-> <<>>,
                         grand_total |-> 0, total_items |-> 0])
    IN
    /\ inflight[t] = Idle
    /\ Len(orders) + Cardinality(placing) < MaxOrders + 1
    /\ IF pre # 0
       THEN /\ last' = handled("place_order", pre, 0, 0, data)
            /\ UNCHANGED inflight
       ELSE IF res.code # 0
       THEN /\ last' = handled("place_order", res.code, res.pos, 0, data)
            /\ UNCHANGED inflight
       ELSE /\ inflight' = [inflight EXCEPT ![t] =
                   [op |-> "place_order", data |-> data, res |-> res, read |-> products]]
            /\ UNCHANGED last
    /\ UNCHANGED <<products, retailers, orders, order_items, received>>

\* A commit that writes the stock and leaves the Order and its items out.
place_order_writes_partial(tx) ==
    [products |-> [pid \in DOMAIN products |->
                      IF \E k \in DOMAIN tx.res.prods : tx.res.prods[k].pid = pid
                      THEN LET k == CHOOSE k \in DOMAIN tx.res.prods : tx.res.prods[k].pid = pid
                           IN [products[pid] EXCEPT
                                  !.stock = tx.read[pid].stock - tx.res.prods[k].qty]
                      ELSE products[pid]],
     orders |-> orders,
     order_items |-> order_items]

\* Lines 207-215: the tables after the commit of place-order tx.  Each stock of
\* the hold-map is written as the value read minus qty; the Order and one
\* OrderItem per entry are inserted.
place_order_writes(tx) ==
    [products |-> [pid \in DOMAIN products |->
                      IF \E k \in DOMAIN tx.res.prods : tx.res.prods[k].pid = pid
                      THEN LET k == CHOOSE k \in DOMAIN tx.res.prods : tx.res.prods[k].pid = pid
                           IN [products[pid] EXCEPT
                                  !.stock = tx.read[pid].stock - tx.res.prods[k].qty]
                      ELSE products[pid]],
     orders |-> Append(orders, Order(py_int(tx.data.retailer_id).v,
                                     tx.res.grand_total, tx.res.total_items)),
     order_items |-> order_items \o
         [k \in DOMAIN tx.res.prods |->
             OrderItemFrom(Len(orders) + 1, tx.res.prods[k], tx.read)]]

commit_place_order(t) ==
    LET tx == inflight[t]
        w == place_order_writes(tx)
    IN
    /\ tx.op = "place_order"
    /\ products' = w.products
    /\ orders' = w.orders
    /\ order_items' = w.order_items
    /\ last' = handled("place_order", 200, Len(tx.data.items) + 1, Len(orders) + 1, tx.data)
    /\ inflight' = [inflight EXCEPT ![t] = Idle]
    /\ UNCHANGED <<retailers, received>>

begin_update_product_stock(t, data) ==
    LET product_id == py_int(data.id)
        stock_to_add == py_int(get(data.stock_to_add, JInt(0)))
        new_cp == py_float(get(data.cp, JInt(0)))
        new_sp == py_float(get(data.sp, JInt(0)))
        new_mrp == py_float(get(data.mrp, JInt(0)))
    IN
    /\ inflight[t] = Idle
    /\ IF ~(product_id.ok /\ stock_to_add.ok /\ new_cp.ok /\ new_sp.ok /\ new_mrp.ok)
       THEN /\ last' = handled("restock", 400, 0, product_id.v, data)
            /\ UNCHANGED inflight
       ELSE IF product_id.v \notin DOMAIN products
       THEN /\ last' = handled("restock", 404, 0, product_id.v, data)
            /\ UNCHANGED inflight
       ELSE /\ stock_to_add.v > 0 =>
                   restocked(products[product_id.v].stock, stock_to_add.v) <= MaxStock
            /\ inflight' = [inflight EXCEPT ![t] =
                   [op |-> "restock", data |-> data, id |-> product_id.v,
                    stock_to_add |-> stock_to_add.v,
                    cp |-> new_cp.v, sp |-> new_sp.v, mrp |-> new_mrp.v,
                    read |-> products[product_id.v]]]
            /\ UNCHANGED last
    /\ UNCHANGED <<products, retailers, orders, order_items, received>>

\* Lines 142-150: the three prices are written; the stock is written, as the
\* value read plus stock_to_add, only when line 148 assigned it.
commit_update_product_stock(t) ==
    LET tx == inflight[t] IN
    /\ tx.op = "restock"
    /\ products' = [products EXCEPT ![tx.id] =
           [repriced(@, tx.cp, tx.sp, tx.mrp) EXCEPT
               !.stock = IF tx.stock_to_add > 0
                         THEN restocked(tx.read.stock, tx.stock_to_add) ELSE @]]
    /\ received' = [received EXCEPT ![tx.id] =
           IF tx.stock_to_add > 0 THEN @ + tx.stock_to_add ELSE @]
    /\ last' = handled("restock", 200, 0, tx.id, tx.data)
    /\ inflight' = [inflight EXCEPT ![t] = Idle]
    /\ UNCHANGED <<retailers, orders, order_items>>

begin_delete_order(t, oid) ==
    /\ inflight[t] = Idle
    /\ IF oid \notin DOMAIN orders
       THEN /\ last' = handled("delete_order", 404, 0, oid, NoData)
            /\ UNCHANGED inflight
       ELSE IF delete_conflict(orders[oid])
       THEN /\ last' = handled("delete_order", 400, 0, oid, NoData)
            /\ UNCHANGED inflight
       ELSE /\ inflight' = [inflight EXCEPT ![t] =
                   [op |-> "delete_order", oid |-> oid, items |-> items_of(oid),
                    read |-> products]]
            /\ UNCHANGED last
    /\ UNCHANGED <<products, retailers, orders, order_items, received>>

\* Lines 256-261: the stock of every product an item names is written as the
\* session's value, the status as deleted.
commit_delete_order(t) ==
    LET tx == inflight[t]
        session == restored(tx.read, tx.items, 1)
    IN
    /\ tx.op = "delete_order"
    /\ products' = [pid \in DOMAIN products |->
           IF \E k \in DOMAIN tx.items : tx.items[k].product_id = pid
           THEN [products[pid] EXCEPT !.stock = session[pid].stock]
           ELSE products[pid]]
    /\ orders' = [orders EXCEPT ![tx.oid].status = "deleted"]
    /\ last' = handled("delete_order", 200, 0, tx.oid, NoData)
    /\ inflight' = [inflight EXCEPT ![t] = Idle]
    /\ UNCHANGED <<retailers, order_items, received>>

NextConc ==
    \/ api_add_retailer("ABC Store")
    \/ \E data \in LaterAddProductInputs : api_add_product(data)
    \/ \E t \in 1..MaxInFlight, data \in ConcPlaceOrderInputs : begin_place_order(t, data)
    \/ \E t \in 1..MaxInFlight : commit_place_order(t)
    \/ \E t \in 1..MaxInFlight, data \in ConcRestockInputs :
           begin_update_product_stock(t, data)
    \/ \E t \in 1..MaxInFlight : commit_update_product_stock(t)
    \/ \E t \in 1..MaxInFlight, oid \in 1..(MaxOrders + 1) : begin_delete_order(t, oid)
    \/ \E t \in 1..MaxInFlight : commit_delete_order(t)

SpecConc == Init /\ [][NextConc]_vars

(***************************************************************************)
(* Vocabulary of the properties.                                           *)
(***************************************************************************)
RECURSIVE SumOver(_, _, _)
SumOver(seq, f(_), i) ==
    IF i > Len(seq) THEN 0 ELSE f(seq[i]) + SumOver(seq, f, i + 1)

QtyOf(it) == it.qty
ItemTotalOf(it) == it.item_total

\* The positions of a request's items list that name product pid.
Naming(items, pid) == { i \in DOMAIN items : items[i].product_id.v = pid }

\* The quantity an accepted request asks of product pid: that of the last item
\* naming it (section 4.1, step 6), 0 when no item names it.
Requested(items, pid) ==
    LET at == Naming(items, pid) IN
    IF at = {} THEN 0
    ELSE items[CHOOSE i \in at : \A j \in at : j <= i].qty.v

\* The quantity of product pid held by the items of the orders not deleted.
ActiveQty(pid) ==
    LET f(it) == IF it.product_id = pid /\ orders[it.order_id].status # "deleted"
                 THEN it.qty ELSE 0
    IN SumOver(order_items, f, 1)

\* The quantity of product pid in the items of order oid.
OrderQty(oid, pid) ==
    LET f(it) == IF it.product_id = pid /\ it.order_id = oid THEN it.qty ELSE 0
    IN SumOver(order_items, f, 1)

Placed == last.op = "place_order" /\ last.code = 200
PlaceRefused == last.op = "place_order" /\ last.code # 200

(***************************************************************************)
(* C1: in every reachable state every Product's stock is >= 0.             *)
(* The code stores whatever integer add-product is given (line 110, 115),  *)
(* so the invariant fails for a product added with a negative stock.       *)
(***************************************************************************)
C1_StockNonNegative ==
    \A pid \in DOMAIN products : products[pid].stock >= 0

(***************************************************************************)
(* C2: for every Order, grand_total is the sum of item_total and           *)
(* total_items the sum of qty over its OrderItems, requests that list a    *)
(* product id more than once included.  The loop adds every listed item to *)
(* the totals (lines 204-205) while the hold-map keeps one entry per       *)
(* product (line 203), so the invariant fails for such a request.          *)
(***************************************************************************)
C2_TotalsMatchItems ==
    \A oid \in DOMAIN orders :
        /\ orders[oid].grand_total = SumOver(items_of(oid), ItemTotalOf, 1)
        /\ orders[oid].total_items = SumOver(items_of(oid), QtyOf, 1)

(***************************************************************************)
(* C3: a place-order call that fails, whatever the reason and the position *)
(* of the offending item, leaves every table as it was.                    *)
(***************************************************************************)
C3_RefusedOrderChangesNothing ==
    [][ (last'.op = "place_order" /\ last'.code # 200)
            => /\ UNCHANGED <<products, retailers, orders, order_items>>
               /\ last'.code \in {400, 404, 409, 500} ]_vars

\* An order was refused for want of stock at its second item, after the first
\* item had been accepted.
C3_Witness ==
    /\ PlaceRefused /\ last.code = 409 /\ last.pos = 2
    /\ Len(products) = 2

(***************************************************************************)
(* C4: a place-order call that succeeds creates exactly one Order, with    *)
(* status pending, takes from the stock of each product the request names  *)
(* the quantity requested of it, and leaves the other products' stock, the *)
(* other orders and their items as they were.                              *)
(***************************************************************************)
C4_PlacedOrderEffect ==
    [][ (last'.op = "place_order" /\ last'.code = 200)
            => /\ Len(orders') = Len(orders) + 1
               /\ orders'[Len(orders')].status = "pending"
               /\ SubSeq(orders', 1, Len(orders)) = orders
               /\ SubSeq(order_items', 1, Len(order_items)) = order_items
               /\ \A k \in (Len(order_items) + 1)..Len(order_items') :
                      order_items'[k].order_id = Len(orders')
               /\ DOMAIN products' = DOMAIN products
               /\ \A pid \in DOMAIN products :
                      products'[pid] = [products[pid] EXCEPT
                          !.stock = @ - Requested(last'.data.items, pid)] ]_vars

\* An order for one of two products was accepted: the named product's stock fell
\* and the other product was not named.
C4_Witness ==
    /\ Placed /\ Len(products) = 2
    /\ \E pid \in DOMAIN products :
           /\ Requested(last.data.items, pid) = 2
           /\ products[pid].stock = last.before[pid] - 2
    /\ \E pid \in DOMAIN products : Naming(last.data.items, pid) = {}

(***************************************************************************)
(* C5: delete-order on a pending or delivered order gives the qty of each  *)
(* of its OrderItems back to the product's stock and sets the status to    *)
(* deleted; a successful place-order immediately followed by delete-order  *)
(* of that order leaves every stock at its value before the placement.     *)
(***************************************************************************)
C5_DeleteRestoresStock ==
    [][ (last'.op = "delete_order" /\ last'.arg \in DOMAIN orders
           /\ orders[last'.arg].status \in {"pending", "delivered"})
            => /\ last'.code = 200
               /\ orders' = [orders EXCEPT ![last'.arg].status = "deleted"]
               /\ DOMAIN products' = DOMAIN products
               /\ \A pid \in DOMAIN products :
                      products'[pid] = [products[pid] EXCEPT
                          !.stock = @ + OrderQty(last'.arg, pid)]
               /\ UNCHANGED <<retailers, order_items>>
               /\ (Placed /\ last.arg = last'.arg
                     => [pid \in DOMAIN products |-> products'[pid].stock] = last.before)
      ]_vars

\* An order holding stock of two products was deleted and both stocks rose.
C5_Witness ==
    /\ last.op = "delete_order" /\ last.code = 200
    /\ Len(items_of(last.arg)) = 2
    /\ \A pid \in DOMAIN products : products[pid].stock > last.before[pid]

(***************************************************************************)
(* C6: delete-order on an order already deleted fails and changes nothing; *)
(* stock is given back only in a step that takes the order from not        *)
(* deleted to deleted, and a deleted order stays deleted, so the stock of  *)
(* an order's items is restored at most once.                              *)
(***************************************************************************)
C6_DeleteOnlyOnce ==
    [][ /\ (last'.op = "delete_order" /\ last'.arg \in DOMAIN orders
              /\ orders[last'.arg].status = "deleted")
            => /\ last'.code = 400
               /\ UNCHANGED <<products, retailers, orders, order_items>>
        /\ (last'.op = "delete_order" /\ products' # products)
            => /\ orders[last'.arg].status # "deleted"
               /\ orders'[last'.arg].status = "deleted"
        /\ \A oid \in DOMAIN orders :
               orders[oid].status = "deleted"
                   => oid \in DOMAIN orders' /\ orders'[oid].status = "deleted"
      ]_vars

\* A second delete of an order that holds items was turned down, the stock
\* standing where the first delete had put it.
C6_Witness ==
    /\ last.op = "delete_order" /\ last.code = 400
    /\ Len(items_of(last.arg)) >= 1
    /\ \A pid \in DOMAIN products : products[pid].stock = received[pid]

(***************************************************************************)
(* C7: deliver-order on a deleted order fails and changes nothing;         *)
(* deliver-order on a pending order succeeds, sets the status to delivered *)
(* and leaves every Product and every OrderItem as it was.                 *)
(***************************************************************************)
C7_DeliverEffect ==
    [][ /\ (last'.op = "deliver_order" /\ last'.arg \in DOMAIN orders
              /\ orders[last'.arg].status = "deleted")
            => /\ last'.code = 400
               /\ UNCHANGED <<products, retailers, orders, order_items>>
        /\ (last'.op = "deliver_order" /\ last'.arg \in DOMAIN orders
              /\ orders[last'.arg].status = "pending")
            => /\ last'.code = 200
               /\ orders' = [orders EXCEPT ![last'.arg].status = "delivered"]
               /\ UNCHANGED <<products, retailers, order_items>>
      ]_vars

\* An order holding items was delivered.
C7_Witness ==
    /\ last.op = "deliver_order" /\ last.code = 200
    /\ orders[last.arg].status = "delivered"
    /\ Len(items_of(last.arg)) >= 1

(***************************************************************************)
(* C8: every Order is created pending; its status only ever goes           *)
(* pending->delivered, pending->deleted or delivered->deleted; a deleted   *)
(* Order stays deleted and a delivered Order never returns to pending.     *)
(***************************************************************************)
StatusMoves ==
    { <<"pending", "delivered">>, <<"pending", "deleted">>, <<"delivered", "deleted">> }

C8_StatusMachine ==
    [][ /\ DOMAIN orders \subseteq DOMAIN orders'
        /\ \A oid \in DOMAIN orders' :
               IF oid \in DOMAIN orders
               THEN \/ orders'[oid].status = orders[oid].status
                    \/ <<orders[oid].status, orders'[oid].status>> \in StatusMoves
               ELSE orders'[oid].status = "pending"
      ]_vars

\* An order holding two units of a product was deleted, its last status move.
C8_Witness ==
    /\ last.op = "delete_order" /\ last.code = 200
    /\ orders[last.arg].status = "deleted"
    /\ \E pid \in DOMAIN products : products[pid].stock = last.before[pid] + 2

(***************************************************************************)
(* C9: stock ledger.  For every product, the stock is the stock given at   *)
(* add-product, plus the positive restock additions, minus the qty of the  *)
(* OrderItems for it that belong to orders not deleted.                    *)
(***************************************************************************)
C9_StockLedger ==
    \A pid \in DOMAIN products :
        products[pid].stock = received[pid] - ActiveQty(pid)

\* A product was restocked while an order not deleted holds some of it.
C9_Witness ==
    /\ last.op = "restock" /\ last.code = 200
    /\ products[last.arg].stock > last.before[last.arg]
    /\ ActiveQty(last.arg) > 0

(***************************************************************************)
(* C10: place-order with an empty items list fails and creates no Order,   *)
(* hence every Order has at least one OrderItem.  The handler only asks    *)
(* that items be a list (line 172); an empty list passes the loop and an   *)
(* Order without items is stored.                                          *)
(***************************************************************************)
C10_EveryOrderHasItems ==
    \A oid \in DOMAIN orders : Len(items_of(oid)) >= 1

(***************************************************************************)
(* C11: every Order references a Retailer that exists: a place-order       *)
(* request whose retailer_id is an integer matching no Retailer creates no *)
(* Order.  Retailers are never removed, so a reference that resolved at    *)
(* creation resolves in every later state.  The handler converts           *)
(* retailer_id to an integer (lines 180-183) and stores it (line 207)      *)
(* without looking the Retailer up, so the invariant fails for an order    *)
(* placed before the retailer exists.                                      *)
(***************************************************************************)
C11_OrderRetailerExists ==
    /\ \A oid \in DOMAIN orders : orders[oid].retailer_id \in DOMAIN retailers
    /\ (last.op = "place_order" /\ py_int(last.data.retailer_id).ok
           /\ py_int(last.data.retailer_id).v \notin DOMAIN retailers)
          => last.code # 200

(***************************************************************************)
(* C12: every OrderItem has qty > 0, and a place-order request in which    *)
(* an item has qty <= 0 fails with a validation error (400) and creates no *)
(* Order and no OrderItem.  As stated, the response part fails: the loop   *)
(* checks the items in order and stops at the first one it turns down      *)
(* (lines 190-202), so a request whose earlier item names an unknown       *)
(* product or asks more than the stock is answered 404 or 409.             *)
(***************************************************************************)
\* The positions of an items list whose qty is a number <= 0.
NonPositiveAt(items) ==
    { i \in DOMAIN items : items[i].qty.t \in {"int", "numstr"} /\ items[i].qty.v <= 0 }

C12_NonPositiveQtyIsValidationError ==
    /\ \A k \in DOMAIN order_items : order_items[k].qty > 0
    /\ (last.op = "place_order" /\ NonPositiveAt(last.data.items) # {})
          => last.code = 400

(***************************************************************************)
(* C12, amended: every OrderItem has qty > 0, and a place-order request in *)
(* which an item has qty <= 0 fails and creates no Order and no OrderItem; *)
(* the response is a validation error (400) whenever retailer_id is a      *)
(* number or a numeric string and every item listed before the first such  *)
(* item names an existing product with enough stock.                       *)
(***************************************************************************)
\* Item it names an existing product and asks a quantity within its stock.
InStock(it) ==
    /\ it.product_id.t \in {"int", "numstr"} /\ it.qty.t \in {"int", "numstr"}
    /\ it.product_id.v \in DOMAIN products
    /\ it.qty.v >= 1 /\ it.qty.v <= products[it.product_id.v].stock

C12_NonPositiveQtyRefused ==
    [][ /\ \A k \in DOMAIN order_items' : order_items'[k].qty > 0
        /\ (last'.op = "place_order" /\ NonPositiveAt(last'.data.items) # {})
            => /\ last'.code # 200
               /\ UNCHANGED <<products, retailers, orders, order_items>>
               /\ ( /\ last'.data.retailer_id.t \in {"int", "numstr"}
                    /\ \A i \in NonPositiveAt(last'.data.items) :
                           \A j \in 1..(i - 1) : InStock(last'.data.items[j]) )
                   => last'.code = 400
      ]_vars

\* A request whose second item asks a quantity of zero was turned down with
\* 400 at that item, after its first item had been accepted.
C12_Witness ==
    /\ PlaceRefused /\ last.code = 400 /\ last.pos = 2
    /\ 2 \in NonPositiveAt(last.data.items)
    /\ InStock(last.data.items[1])

(***************************************************************************)
(* C13: the active listing holds exactly the orders not deleted, the       *)
(* listing of a retailer exactly that retailer's orders not deleted, and   *)
(* the export holds every order, the deleted ones included.  The export    *)
(* writes one row per OrderItem (lines 285-287), so an Order stored        *)
(* without items (see C10) has no row in it.                               *)
(***************************************************************************)
C13_ListingsAndExport ==
    /\ api_orders = { oid \in DOMAIN orders : orders[oid].status # "deleted" }
    /\ \A rid \in 1..(MaxRetailers + 1) :
           api_retailer_orders(rid) =
               { oid \in DOMAIN orders : /\ orders[oid].retailer_id = rid
                                         /\ orders[oid].status # "deleted" }
    /\ { row.order_id : row \in export_csv } = DOMAIN orders

(***************************************************************************)
(* C14: restock of an existing product sets cp, sp and mrp to the supplied *)
(* values in every case, adds stock_to_add to the stock when it is > 0 and *)
(* leaves the stock alone when it is <= 0; it never lowers the stock and   *)
(* never touches another product, an Order or an OrderItem; on an unknown  *)
(* product id it answers not-found and changes nothing.                    *)
(***************************************************************************)
\* The number a request supplies for a numeric field; 0 when the key is absent.
Supplied(x) == IF x.t = "missing" THEN 0 ELSE x.v

\* Every numeric field of a restock body converts.
RestockParses(data) ==
    /\ data.id.t \in {"int", "numstr"}
    /\ \A x \in {data.stock_to_add, data.cp, data.sp, data.mrp} :
           x.t \in {"int", "numstr", "missing"}

C14_RestockEffect ==
    [][ (last'.op = "restock" /\ RestockParses(last'.data))
            => LET data == last'.data
                   pid == data.id.v
                   add == Supplied(data.stock_to_add)
               IN /\ UNCHANGED <<retailers, orders, order_items>>
                  /\ DOMAIN products' = DOMAIN products
                  /\ \A other \in DOMAIN products \ {pid} :
                         products'[other] = products[other]
                  /\ IF pid \in DOMAIN products
                     THEN /\ last'.code = 200
                          /\ products'[pid].name = products[pid].name
                          /\ products'[pid].cp = Supplied(data.cp)
                          /\ products'[pid].sp = Supplied(data.sp)
                          /\ products'[pid].mrp = Supplied(data.mrp)
                          /\ products'[pid].stock =
                                 IF add > 0 THEN products[pid].stock + add
                                 ELSE products[pid].stock
                          /\ products'[pid].stock >= products[pid].stock
                     ELSE /\ last'.code = 404
                          /\ products' = products
      ]_vars

\* A restock with a negative stock_to_add went through on a product of which an
\* order holds items: the prices are the supplied ones, the stock stands.
C14_Witness ==
    /\ last.op = "restock" /\ last.code = 200
    /\ Supplied(last.data.stock_to_add) < 0
    /\ products[last.arg].stock = last.before[last.arg]
    /\ products[last.arg].sp = Supplied(last.data.sp)
    /\ \E k \in DOMAIN order_items :
           /\ order_items[k].product_id = last.arg
           /\ order_items[k].sp # products[last.arg].sp

(***************************************************************************)
(* C15: once an Order is created, no operation (restock with new prices, a *)
(* further place-order, deliver-order, delete-order) changes any field of  *)
(* its OrderItems or the Order's grand_total, total_items or retailer_id;  *)
(* only the Order's status changes.  Checked under SpecOrders, where an    *)
(* order sees a later order placed.                                        *)
(***************************************************************************)
C15_OrderFrozen ==
    [][ /\ \A k \in DOMAIN order_items :
               k \in DOMAIN order_items' /\ order_items'[k] = order_items[k]
        /\ \A oid \in DOMAIN orders :
               /\ oid \in DOMAIN orders'
               /\ orders'[oid].retailer_id = orders[oid].retailer_id
               /\ orders'[oid].grand_total = orders[oid].grand_total
               /\ orders'[oid].total_items = orders[oid].total_items
      ]_vars

\* A first order was placed, its product repriced by a restock, the order
\* deleted, and a second order has just been placed: the first order's item
\* still carries the selling price it was created with.
C15_Witness ==
    /\ Placed /\ last.arg = 2
    /\ orders[1].status = "deleted"
    /\ \E k \in DOMAIN order_items :
           /\ order_items[k].order_id = 1
           /\ order_items[k].sp # products[order_items[k].product_id].sp
           /\ order_items[k].item_total = order_items[k].sp * order_items[k].qty

(***************************************************************************)
(* C16: in every reachable state every Product's cp, sp and mrp are >= 0.  *)
(* add-product and restock store the prices they are given once float()   *)
(* has converted them (lines 107-109, 115 and 130-132, 142-144); neither   *)
(* checks a sign, so the invariant fails for a negative price.             *)
(***************************************************************************)
C16_PricesNonNegative ==
    \A pid \in DOMAIN products :
        products[pid].cp >= 0 /\ products[pid].sp >= 0 /\ products[pid].mrp >= 0

(***************************************************************************)
(* C18: when a place-order request that succeeds lists a product id more   *)
(* than once, exactly one OrderItem is created for that product, its qty   *)
(* is the quantity listed last for it, and the product's stock falls by    *)
(* exactly that quantity.                                                  *)
(***************************************************************************)
\* The quantity of the last item of the list that names product pid.
LastListed(items, pid) ==
    LET at == { i \in DOMAIN items : items[i].product_id.v = pid }
    IN items[CHOOSE i \in at : \A j \in at : j <= i].qty.v

C18_DuplicateLastWins ==
    [][ (last'.op = "place_order" /\ last'.code = 200)
            => \A pid \in DOMAIN products :
                   Cardinality(Naming(last'.data.items, pid)) >= 2
                   => LET created == { k \in DOMAIN order_items' \ DOMAIN order_items :
                                         order_items'[k].product_id = pid }
                      IN /\ Cardinality(created) = 1
                         /\ \A k \in created :
                                /\ order_items'[k].qty = LastListed(last'.data.items, pid)
                                /\ order_items'[k].order_id = last'.arg
                         /\ products'[pid].stock =
                                products[pid].stock - LastListed(last'.data.items, pid)
      ]_vars

\* An order listing product 1 twice, first for 2 units and then for 1, was
\* accepted: one item of qty 1 was created and the stock fell by 1.
C18_Witness ==
    /\ Placed
    /\ Naming(last.data.items, 1) = {1, 2}
    /\ last.data.items[1].qty.v = 2 /\ last.data.items[2].qty.v = 1
    /\ Len(items_of(last.arg)) = 1
    /\ products[1].stock = last.before[1] - 1

(***************************************************************************)
(* C19: an input field that fails to parse as a number, whatever the kind  *)
(* of the value supplied, is answered with a validation error (400), never *)
(* with an unhandled failure of the request.  The conversion of            *)
(* retailer_id catches ValueError only (lines 180-183): a list or an       *)
(* object makes int() raise TypeError, which no handler catches, and the   *)
(* request ends as an internal server error.                               *)
(***************************************************************************)
\* A value int() and float() convert.
Numeric(x) == x.t \in {"int", "numstr"}

\* The items before position i all name an existing product with enough stock.
AcceptedBefore(items, i) == \A j \in 1..(i - 1) : InStock(items[j])

C19_ParseFailureIsValidationError ==
    /\ last.code # 500
    /\ (last.op = "place_order" /\ last.data.items_is_list)
          => /\ ~Numeric(last.data.retailer_id) => last.code = 400
             /\ Numeric(last.data.retailer_id)
                   => \A i \in DOMAIN last.data.items :
                          ( /\ AcceptedBefore(last.data.items, i)
                            /\ \/ ~Numeric(last.data.items[i].product_id)
                               \/ ~Numeric(get(last.data.items[i].qty, JInt(0))) )
                          => last.code = 400
    /\ (last.op = "restock" /\ ~RestockParses(last.data)) => last.code = 400
    /\ ( /\ last.op = "add_product"
         /\ \E x \in {last.data.cp, last.data.sp, last.data.mrp, last.data.stock} :
                ~Numeric(get(x, JInt(0))) )
          => last.code = 400

(***************************************************************************)
(* C20: place-order preserves non-negative stock when requests run one     *)
(* after the other: if every Product's stock is >= 0 before the call, it   *)
(* is >= 0 after it, also for a request that lists a product several      *)
(* times with quantities that each fit the stock but together exceed it.   *)
(***************************************************************************)
C20_PlaceOrderKeepsStockNonNegative ==
    [][ ( /\ last'.op = "place_order"
          /\ \A pid \in DOMAIN products : products[pid].stock >= 0 )
            => \A pid \in DOMAIN products' : products'[pid].stock >= 0
      ]_vars

\* An order listing one product twice was accepted; each quantity fits the stock
\* there was, their sum does not, and no stock is negative before or after.
C20_Witness ==
    /\ Placed
    /\ \A pid \in DOMAIN products : last.before[pid] >= 0 /\ products[pid].stock >= 0
    /\ \E pid \in DOMAIN products :
           /\ Naming(last.data.items, pid) = {1, 2}
           /\ last.data.items[1].qty.v <= last.before[pid]
           /\ last.data.items[2].qty.v <= last.before[pid]
           /\ last.data.items[1].qty.v + last.data.items[2].qty.v > last.before[pid]

(***************************************************************************)
(* C17: place-order is atomic with respect to other requests: when two     *)
(* state-changing requests on the same product are interleaved, no other   *)
(* request's stock write takes effect between a place-order's stock check  *)
(* and its decrement, so no update is lost, stock never goes negative and  *)
(* no state with the stock decremented but the Order or its OrderItems     *)
(* missing is observable.  Stated on the states of SpecConc: the stock     *)
(* ledger of C9 holds (no update is lost), no stock is negative and every  *)
(* Order has its items.  The first part fails: the handler writes the      *)
(* stock it read minus qty at commit (lines 198, 211, 215) with no lock in *)
(* between, so a write committed meanwhile is overwritten.                 *)
(***************************************************************************)
C17_NoUpdateLost ==
    /\ \A pid \in DOMAIN products :
           /\ products[pid].stock = received[pid] - ActiveQty(pid)
           /\ products[pid].stock >= 0
    /\ \A oid \in DOMAIN orders : Len(items_of(oid)) >= 1
    /\ \A k \in DOMAIN order_items : order_items[k].order_id \in DOMAIN orders

(***************************************************************************)
(* C17, amended: place-order's writes are all-or-nothing with respect to   *)
(* other requests.  The Order, its OrderItems and the stock writes appear  *)
(* together in the one step that commits the request, a request that is    *)
(* turned down and a request that has not committed write nothing, and no  *)
(* step makes a stock negative.  The sequence is not isolated: each stock  *)
(* is written as the value read at the stock check minus qty, so a write   *)
(* another request commits between the check and the commit is lost.       *)
(***************************************************************************)
\* Slot t commits its place-order in this step.
Committing(t) == inflight[t].op = "place_order" /\ inflight'[t] = Idle

C17_CommitIsAllOrNothing ==
    [][ /\ \A t \in DOMAIN inflight :
               Committing(t)
               => LET tx == inflight[t] IN
                  /\ Len(orders') = Len(orders) + 1
                  /\ SubSeq(orders', 1, Len(orders)) = orders
                  /\ orders'[Len(orders')].status = "pending"
                  /\ Len(order_items') = Len(order_items) + Len(tx.res.prods)
                  /\ Len(tx.res.prods) >= 1
                  /\ SubSeq(order_items', 1, Len(order_items)) = order_items
                  /\ \A k \in (Len(order_items) + 1)..Len(order_items') :
                         /\ order_items'[k].order_id = Len(orders')
                         /\ products'[order_items'[k].product_id].stock =
                                tx.read[order_items'[k].product_id].stock - order_items'[k].qty
                  /\ \A pid \in DOMAIN products :
                         Naming(tx.data.items, pid) = {} => products'[pid] = products[pid]
        /\ (orders' # orders \/ order_items' # order_items \/ products' # products)
               => \/ \E t \in DOMAIN inflight : inflight[t] # Idle /\ inflight'[t] = Idle
                  \/ last'.op = "add_product"
        /\ (Len(orders') # Len(orders) \/ order_items' # order_items)
               => \E t \in DOMAIN inflight : Committing(t)
        /\ (\A pid \in DOMAIN products : products[pid].stock >= 0)
               => \A pid \in DOMAIN products' : products'[pid].stock >= 0
      ]_vars

\* A place-order has just committed over a write that another request committed
\* after the stock check: the stock is not what it was at the commit minus qty.
C17_Witness ==
    /\ Placed
    /\ Len(items_of(last.arg)) >= 1
    /\ \E pid \in DOMAIN products :
           /\ Naming(last.data.items, pid) # {}
           /\ products[pid].stock # last.before[pid] - Requested(last.data.items, pid)
           /\ products[pid].stock # received[pid] - ActiveQty(pid)
====
